---------------------------- MODULE Spec2Model ----------------------------
(***************************************************************************)
(* Model of src/main.py: the book store seeded at import time, the batch   *)
(* function load_author_books_batch, the DataLoader load function          *)
(* load_author_books, and the module-level DataLoader author_book_loader   *)
(* that the Author.books resolver awaits.                                  *)
(*                                                                         *)
(* Strings are sequences of one-character strings, so that formatting      *)
(* (f"Book {i + 1}") and matching (ilike) are computed, not assumed.       *)
(* A filter argument "BookFilter | None" is a sequence: << >> is None and  *)
(* <<title>> is BookFilter(title=title); equality of sequences is the      *)
(* value equality of the frozen input class.                               *)
(***************************************************************************)
EXTENDS Integers, Sequences, FiniteSets, TLC

\* ------------------------------------------------------------------ bounds
\* most load() calls made on the loader in one behaviour
MaxLoads == 3
\* longest request list handed directly to load_author_books
MaxKeys == 3

\* ------------------------------------------------------- program constants
\* range(2) authors, range(10) books, db_authors[i // 5]
NumAuthors == 2
NumBooks == 10
BooksPerAuthor == 5

\* --------------------------------------------------------------- strings
DigitChar == <<"0", "1", "2", "3", "4", "5", "6", "7", "8", "9">>

RECURSIVE Str(_)
\* str(n) of a natural number, as the f-string formats it
Str(n) == IF n < 10 THEN <<DigitChar[n + 1]>>
          ELSE Str(n \div 10) \o <<DigitChar[(n % 10) + 1]>>

\* lower() on the letters the model uses
Lower(c) == CASE c = "B" -> "b"
              [] c = "O" -> "o"
              [] c = "K" -> "k"
              [] OTHER -> c

LowerStr(s) == [i \in 1..Len(s) |-> Lower(s[i])]

RECURSIVE Like(_, _)
\* SQL LIKE: % matches any run of characters, _ any one character
Like(p, s) ==
    IF p = << >> THEN s = << >>
    ELSE IF Head(p) = "%" THEN Like(Tail(p), s) \/ (s # << >> /\ Like(p, Tail(s)))
    ELSE IF s = << >> THEN FALSE
    ELSE (Head(p) = "_" \/ Head(p) = Head(s)) /\ Like(Tail(p), Tail(s))

\* column.ilike(pattern): lower(column) LIKE lower(pattern)
ilike(column, pattern) == Like(LowerStr(pattern), LowerStr(column))

\* ------------------------------------------------------------- the store
\* f"Book {i + 1}" for i in range(10); Title is indexed by the row id i + 1
Title(id) == <<"B", "o", "o", "k", " ">> \o Str(id)

\* the rows of table book after session.add_all(db_books); commit()
db_books ==
    [i \in 1..NumBooks |->
        [id |-> i, author_id |-> ((i - 1) \div BooksPerAuthor) + 1, title |-> Title(i)]]

\* ids of the rows of table author
AuthorIds == 1..NumAuthors

\* --------------------------------------------------------------- filters
None == << >>
BookFilter(title) == <<title>>

\* Book(id=b.id, title=b.title)
Book(b) == [id |-> b.id, title |-> b.title]

\* dict.get(key, default)
Get(d, k, default) == IF k \in DOMAIN d THEN d[k] ELSE default

\* d[k] = v
Put(d, k, v) == [x \in (DOMAIN d) \cup {k} |-> IF x = k THEN v ELSE d[x]]

EmptyDict == [x \in {} |-> << >>]

SeqToSet(s) == {s[i] : i \in 1..Len(s)}

\* the statement of load_author_books_batch, executed: the rows selected
Execute(where, ids) ==
    LET InIds(b) == b.id \in SeqToSet(ids)
        Matches(b) == where # None =>
                        ilike(b.title, <<"%">> \o where[1] \o <<"%">>)
        Keep(b) == InIds(b) /\ Matches(b)
    IN SelectSeq(db_books, Keep)

RECURSIVE AuthorBooksMap(_, _)
\* the loop that builds author_books_map from the selected rows
AuthorBooksMap(books, m) ==
    IF books = << >> THEN m
    ELSE LET book == Head(books)
             author_books == Get(m, book.author_id, << >>)
         IN AuthorBooksMap(Tail(books),
               IF author_books # << >>
               THEN Put(m, book.author_id, Append(author_books, book))
               ELSE Put(m, book.author_id, <<book>>))

\* load_author_books_batch(where, ids) when session.execute returns
load_author_books_batch(where, ids) == AuthorBooksMap(Execute(where, ids), EmptyDict)

\* ------------------------------------------------------ load_author_books
\* position of filter where in the insertion-ordered dict m, 0 when absent
RECURSIVE IndexOf(_, _, _)
IndexOf(m, where, i) ==
    IF i > Len(m) THEN 0
    ELSE IF m[i].where = where THEN i
    ELSE IndexOf(m, where, i + 1)

\* a where_ids_map with one entry per request instead of one per filter
WhereIdsMapPerRequest(keys, m) ==
    m \o [i \in 1..Len(keys) |-> [where |-> keys[i][1], ids |-> <<keys[i][2]>>]]

RECURSIVE WhereIdsMap(_, _)
\* the loop that builds where_ids_map; a dict keeps insertion order, so it
\* is a sequence of [where, ids] entries
WhereIdsMap(keys, m) ==
    IF keys = << >> THEN m
    ELSE LET where == Head(keys)[1]
             id == Head(keys)[2]
             i == IndexOf(m, where, 1)
         IN WhereIdsMap(Tail(keys),
               IF i # 0 /\ m[i].ids # << >>
               THEN [m EXCEPT ![i].ids = Append(@, id)]
               ELSE IF i # 0
                    THEN [m EXCEPT ![i].ids = <<id>>]
                    ELSE Append(m, [where |-> where, ids |-> <<id>>]))

\* the dict comprehension: one load_author_books_batch call per entry, in
\* insertion order.  fail is the position of the call whose session.execute
\* raises (0: none does); the exception leaves the comprehension at once.
BatchCalls(groups, fail) ==
    LET n == IF fail \in 1..Len(groups) THEN fail ELSE Len(groups)
    IN [i \in 1..n |->
          [where |-> groups[i].where,
           ids |-> groups[i].ids,
           raised |-> (i = fail),
           map |-> IF i = fail THEN EmptyDict
                   ELSE load_author_books_batch(groups[i].where, groups[i].ids)]]

\* [Book(id=b.id, title=b.title) for b in batch]
BookList(batch) == [j \in 1..Len(batch) |-> Book(batch[j])]

\* Body(v), with v evaluated once
With(v, Body(_)) == CHOOSE r \in {Body(x) : x \in {v}} : TRUE

\* load_author_books returning its lists group by group, not in request order
load_author_books_by_group(keys, fail) ==
    With(WhereIdsMap(keys, << >>), LAMBDA groups :
    With(BatchCalls(groups, fail), LAMBDA made :
        LET raised == fail \in 1..Len(groups)
            Flat(g) == [i \in 1..Len(groups[g].ids) |->
                          Get(made[g].map, groups[g].ids[i], << >>)]
            Upto[g \in 0..Len(groups)] ==
                IF g = 0 THEN << >> ELSE Upto[g - 1] \o Flat(g)
        IN [raised |-> raised,
            calls |-> made,
            value |-> IF raised THEN << >>
                      ELSE With(Upto[Len(groups)], LAMBDA db_book_batches :
                             [i \in 1..Len(keys) |-> BookList(db_book_batches[i])])]))

\* load_author_books looking every key up in the first group's map
load_author_books_one_map(keys, fail) ==
    With(WhereIdsMap(keys, << >>), LAMBDA groups :
    With(BatchCalls(groups, fail), LAMBDA made :
        LET raised == fail \in 1..Len(groups)
        IN [raised |-> raised,
            calls |-> made,
            value |-> IF raised THEN << >>
                      ELSE With([i \in 1..Len(keys) |->
                                    Get(made[1].map, keys[i][2], << >>)],
                                LAMBDA db_book_batches :
                             [i \in 1..Len(keys) |-> BookList(db_book_batches[i])])]))

\* load_author_books(keys): raised tells whether it raised, value is the
\* returned list, calls the load_author_books_batch calls it made
load_author_books(keys, fail) ==
    With(WhereIdsMap(keys, << >>), LAMBDA groups :
    With(BatchCalls(groups, fail), LAMBDA made :
        LET raised == fail \in 1..Len(groups)
            where_author_books_map_map(where) == made[IndexOf(groups, where, 1)].map
        IN [raised |-> raised,
            calls |-> made,
            value |-> IF raised THEN << >>
                      ELSE With([i \in 1..Len(keys) |->
                                    Get(where_author_books_map_map(keys[i][1]),
                                        keys[i][2], << >>)],
                                LAMBDA db_book_batches :
                             [i \in 1..Len(keys) |-> BookList(db_book_batches[i])])]))

\* ------------------------------------------------------------ the loader
\* filter values of request lists
Filters == {None, BookFilter(<<"1">>), BookFilter(<<"b", "o", "o", "k">>),
            BookFilter(<<"B", "o", "o", "k">>)}

\* filter values the resolvers are called with
LoadFilters == {None, BookFilter(<<"1">>), BookFilter(<<"b", "o", "o", "k">>)}

\* (where, self.id) of Author.books: self.id is the id of an author row
LoadKeys == LoadFilters \X AuthorIds

\* request lists for a direct call of load_author_books
FnKeys == Filters \X (1..(NumAuthors + 1))

\* the logical operations (executions of the schema) that load.  Their
\* resolvers are callers of the loader: the event loop may run a resolver of
\* any operation before or after any dispatch.
Scopes == {"op1", "op2"}

NoBatch == [tasks |-> << >>, dispatched |-> TRUE, exists |-> FALSE]

VARIABLES
    cache_map,   \* author_book_loader.cache_map: key -> future (0: no entry)
    futures,     \* the futures the loader created, by creation order
    batch,       \* author_book_loader.batch
    calls,       \* the load() calls made so far: the operation, the key, the
                 \* future returned, and how many flushes had run (at)
    flushLog     \* the load_author_books calls so far: the request list,
                 \* which fetch failed, and the outcome

vars == <<cache_map, futures, batch, calls, flushLog>>

Init ==
    /\ cache_map = [k \in LoadKeys |-> 0]
    /\ futures = << >>
    /\ batch = NoBatch
    /\ calls = << >>
    /\ flushLog = << >>

\* a loader that keeps adding to a batch it has already dispatched
ShouldCreateNewBatchStale(b) == ~b.exists

\* should_create_new_batch of the loader: no batch yet, or already dispatched
ShouldCreateNewBatch(b) == ~b.exists \/ b.dispatched

\* a loader that never looks into its cache
LoaderLoadNoCache(s, key) ==
    LET f == Len(futures) + 1
    IN /\ futures' = Append(futures,
               [key |-> key, scope |-> s, state |-> "pending",
                value |-> << >>, window |-> 0])
       /\ cache_map' = [cache_map EXCEPT ![key] = f]
       /\ batch' = IF ~batch.exists \/ batch.dispatched
                   THEN [tasks |-> <<f>>, dispatched |-> FALSE, exists |-> TRUE]
                   ELSE [batch EXCEPT !.tasks = Append(@, f)]
       /\ calls' = Append(calls, [scope |-> s, key |-> key, fut |-> f,
                                  at |-> Len(flushLog)])
       /\ UNCHANGED flushLog

\* DataLoader.load(key) for a caller of operation s: the cached future when
\* there is one, else a new future added to the current batch
LoaderLoad(s, key) ==
    IF cache_map[key] # 0
    THEN /\ calls' = Append(calls, [scope |-> s, key |-> key, fut |-> cache_map[key],
                                 at |-> Len(flushLog)])
         /\ UNCHANGED <<cache_map, futures, batch, flushLog>>
    ELSE LET f == Len(futures) + 1
         IN /\ futures' = Append(futures,
                    [key |-> key, scope |-> s, state |-> "pending",
                     value |-> << >>, window |-> 0])
            /\ cache_map' = [cache_map EXCEPT ![key] = f]
            /\ batch' = IF ShouldCreateNewBatch(batch)
                        THEN [tasks |-> <<f>>, dispatched |-> FALSE, exists |-> TRUE]
                        ELSE [batch EXCEPT !.tasks = Append(@, f)]
            /\ calls' = Append(calls, [scope |-> s, key |-> key, fut |-> f,
                                    at |-> Len(flushLog)])
            /\ UNCHANGED flushLog

\* Author.books(where) of author self.id, resolved in operation s
Load(s, key) ==
    /\ Len(calls) < MaxLoads
    /\ LoaderLoad(s, key)

\* dispatch_batch of the loader, run by the event loop for the current
\* batch: load_author_books on the batch's keys, then every future of the
\* batch gets its value, or the exception when load_author_books raised
DispatchBatch(fail) ==
    /\ batch.exists /\ ~batch.dispatched
    /\ LET keys == [i \in 1..Len(batch.tasks) |-> futures[batch.tasks[i]].key]
           w == Len(flushLog) + 1
           Pos(f) == CHOOSE i \in 1..Len(batch.tasks) : batch.tasks[i] = f
       IN /\ fail \in 0..Len(WhereIdsMap(keys, << >>))
          /\ batch' = [batch EXCEPT !.dispatched = TRUE]
          /\ \E out \in {load_author_books(keys, fail)} :
               /\ flushLog' = Append(flushLog,
                                     [keys |-> keys, fail |-> fail, out |-> out])
               /\ futures' = [f \in 1..Len(futures) |->
                     IF f \in SeqToSet(batch.tasks)
                     THEN IF out.raised
                          THEN [futures[f] EXCEPT !.state = "failed", !.window = w]
                          ELSE [futures[f] EXCEPT !.state = "resolved",
                                                  !.value = out.value[Pos(f)],
                                                  !.window = w]
                     ELSE futures[f]]
    /\ UNCHANGED <<cache_map, calls>>

Dispatch == \E fail \in 0..Cardinality(LoadFilters) : DispatchBatch(fail)

Next ==
    \/ \E s \in Scopes, key \in LoadKeys : Load(s, key)
    \/ Dispatch

Spec == Init /\ [][Next]_vars

\* the loads of one operation under two filter values
FairKeys == {None, BookFilter(<<"1">>)} \X AuthorIds

FairNext ==
    \/ \E key \in FairKeys : Load("op1", key)
    \/ Dispatch

\* the event loop runs every callback it was given with call_soon, so a
\* batch that waits for its dispatch gets it
FairSpec == Init /\ [][FairNext]_vars /\ WF_vars(Dispatch)

\* ------------------------------------------- load_author_books on its own
RECURSIVE SeqsUpTo(_, _)
SeqsUpTo(S, n) ==
    IF n = 0 THEN {<< >>}
    ELSE LET shorter == SeqsUpTo(S, n - 1)
         IN shorter \cup {Append(q, x) : q \in {r \in shorter : Len(r) = n - 1}, x \in S}

\* one call load_author_books(keys) on a request list
DirectCall(keys, fail) ==
    /\ fail \in 0..Len(WhereIdsMap(keys, << >>))
    /\ flushLog' = <<[keys |-> keys, fail |-> fail,
                     out |-> load_author_books(keys, fail)]>>
    /\ UNCHANGED <<cache_map, futures, batch, calls>>

\* a behaviour of FnSpec is one call, on any request list of the bound
FnNext ==
    /\ flushLog = << >>
    /\ \E keys \in SeqsUpTo(FnKeys, MaxKeys), fail \in 0..Cardinality(Filters) :
          DirectCall(keys, fail)

FnSpec == Init /\ [][FnNext]_vars

\* ---------------------------------------------------------------- claims
FilterOf(key) == key[1]
IdOf(key) == key[2]

\* the child records of parent k that satisfy the filter, in store order
Children(where, k) ==
    LET Keep(b) == /\ b.author_id = k
                   /\ where # None => ilike(b.title, <<"%">> \o where[1] \o <<"%">>)
    IN SelectSeq(db_books, Keep)

DistinctFilters(keys) == {FilterOf(keys[i]) : i \in 1..Len(keys)}

\* the ids requested under filter where in a request list, in request order
OwnIds(keys, where) ==
    LET Own(key) == FilterOf(key) = where
        own == SelectSeq(keys, Own)
    IN [i \in 1..Len(own) |-> IdOf(own[i])]

Books(rows) == [j \in 1..Len(rows) |-> Book(rows[j])]

\* what the fetch of key's own filter group, and nothing else, gives key
OwnGroupResult(keys, key) ==
    Books(Get(load_author_books_batch(FilterOf(key), OwnIds(keys, FilterOf(key))),
              IdOf(key), << >>))

\* all load_author_books_batch calls made so far
RECURSIVE BatchCallsMade(_)
BatchCallsMade(w) ==
    IF w = 0 THEN 0 ELSE BatchCallsMade(w - 1) + Len(flushLog[w].out.calls)

\* the call of key's group in flush w: 0 when the flush never reached it
GroupCall(w, key) ==
    LET groups == WhereIdsMap(flushLog[w].keys, << >>)
        i == IndexOf(groups, FilterOf(key), 1)
    IN IF i <= Len(flushLog[w].out.calls) THEN i ELSE 0

\* the fetch of key's group in flush w returned
GroupFetched(w, key) ==
    /\ GroupCall(w, key) # 0
    /\ ~flushLog[w].out.calls[GroupCall(w, key)].raised

Flushed == {f \in 1..Len(futures) : futures[f].window # 0}

\* C1: every load_author_books_batch call that returns gives, for each key of
\* its key set, exactly the child records of that parent that satisfy the
\* filter, in store order, and nothing for any other parent.
C1_BatchReturnsChildren ==
    \A w \in 1..Len(flushLog) :
        \A c \in 1..Len(flushLog[w].out.calls) :
            LET call == flushLog[w].out.calls[c]
            IN ~call.raised =>
                 /\ \A k \in SeqToSet(call.ids) :
                        Get(call.map, k, << >>) = Children(call.where, k)
                 /\ DOMAIN call.map \subseteq SeqToSet(call.ids)

\* C2: one call of load_author_books makes as many load_author_books_batch
\* calls as there are distinct filter values in its request list.
C2_OneFetchPerFilter ==
    \A w \in 1..Len(flushLog) :
        Len(flushLog[w].out.calls) = Cardinality(DistinctFilters(flushLog[w].keys))

\* C3: a caller whose own group's fetch returned gets its result, whatever
\* happened to the fetch of another group of the same flush.
C3_FailureIsolation ==
    \A f \in Flushed :
        GroupFetched(futures[f].window, futures[f].key) =>
            futures[f].state = "resolved"

\* C4: within one operation, load calls with equal (filter, key) get the same
\* future, whichever flush window they fall in; no key has two futures; and
\* no key is handed to load_author_books more than once.
C4_DedupScopeWide ==
    /\ \A i, j \in 1..Len(calls) :
          (calls[i].scope = calls[j].scope /\ calls[i].key = calls[j].key)
              => calls[i].fut = calls[j].fut
    /\ \A f, g \in 1..Len(futures) :
          futures[f].key = futures[g].key => f = g
    /\ \A key \in LoadKeys :
          Cardinality({<<w, i>> \in (1..Len(flushLog)) \X (1..MaxLoads) :
                          i <= Len(flushLog[w].keys) /\ flushLog[w].keys[i] = key}) <= 1

\* two calls of one operation on the same key, one before and one after a flush
C4_Witness ==
    \E i, j \in 1..Len(calls) :
        /\ calls[i].scope = calls[j].scope /\ calls[i].key = calls[j].key
        /\ calls[i].at = 0 /\ calls[j].at = 1
        /\ futures[calls[j].fut].state = "resolved"

\* C5: a load call is answered with a future created by its own operation.
C5_ScopesIsolated ==
    \A i \in 1..Len(calls) : futures[calls[i].fut].scope = calls[i].scope

\* C6: a returned list has the length of the request list, entry i is what
\* the fetch of request i's filter group gives request i's key, and requests
\* with equal (filter, key) get equal entries.
C6_OrderPreserved ==
    \A w \in 1..Len(flushLog) :
        LET keys == flushLog[w].keys
            out == flushLog[w].out
        IN ~out.raised =>
             /\ Len(out.value) = Len(keys)
             /\ \A i \in 1..Len(keys) : out.value[i] = OwnGroupResult(keys, keys[i])
             /\ \A i, j \in 1..Len(keys) :
                    keys[i] = keys[j] => out.value[i] = out.value[j]

\* a returned list for a request list like [(None, 1), (F, 1), (None, 1)]
\* whose entries under the two filters differ
C6_Witness ==
    \E w \in 1..Len(flushLog) :
        LET keys == flushLog[w].keys
            out == flushLog[w].out
        IN /\ ~out.raised /\ Len(keys) = 3
           /\ keys[1] = keys[3] /\ FilterOf(keys[1]) # FilterOf(keys[2])
           /\ out.value[1] # out.value[2] /\ out.value[1] # << >>

\* C7: a key whose group was fetched and has no record in the fetched map
\* resolves to the empty list, never to an error.
C7_MissingKeyIsEmpty ==
    \A f \in Flushed :
        LET w == futures[f].window
            key == futures[f].key
        IN (/\ GroupFetched(w, key)
            /\ IdOf(key) \notin DOMAIN flushLog[w].out.calls[GroupCall(w, key)].map)
             => (futures[f].state = "resolved" /\ futures[f].value = << >>)

\* every load call so far came from one operation
OneScope == \A i, j \in 1..Len(calls) : calls[i].scope = calls[j].scope

Attempted(w) ==
    LET n == Cardinality(DistinctFilters(flushLog[w].keys))
    IN IF flushLog[w].fail \in 1..n THEN flushLog[w].fail ELSE n

RECURSIVE AttemptedUpTo(_)
AttemptedUpTo(w) == IF w = 0 THEN 0 ELSE AttemptedUpTo(w - 1) + Attempted(w)

C9_OwnGroupOnly ==
    \A f \in Flushed :
        futures[f].state = "resolved" =>
            futures[f].value = OwnGroupResult(flushLog[futures[f].window].keys,
                                              futures[f].key)

\* one flush resolves the same author under two filters, to different lists
C9_Witness ==
    \E f, g \in Flushed :
        /\ futures[f].window = futures[g].window
        /\ IdOf(futures[f].key) = IdOf(futures[g].key)
        /\ FilterOf(futures[f].key) # FilterOf(futures[g].key)
        /\ futures[f].state = "resolved" /\ futures[g].state = "resolved"
        /\ futures[f].value # futures[g].value

\* C10: every future a load call created is eventually resolved or failed.
C10_EveryLoadSettles ==
    \A f \in 1..MaxLoads :
        (f <= Len(futures)) ~> (f <= Len(futures) /\ futures[f].state # "pending")

\* a future created after an earlier flush had run, settled by a later flush
C10_Witness ==
    \E i \in 1..Len(calls) :
        /\ calls[i].at >= 1
        /\ futures[calls[i].fut].window = 2
        /\ futures[calls[i].fut].state # "pending"

=============================================================================
